---- MODULE Spec2Model ----
(***************************************************************************)
(* Model of the tokenizer and the operator-precedence parser of            *)
(* asynts/lang:                                                            *)
(*   src/calc/lexer.py  the lexer with whitespace and located errors       *)
(*   src/lang/lexer.py  the lexer with prefix/postfix operators and the    *)
(*                      two-stack Parser                                   *)
(* A string is a sequence of one-character strings.  The cursor is the     *)
(* 0-based index of Python, so the character under the cursor is           *)
(* input[cursor + 1].  The recursive methods of a lexer run on an explicit *)
(* call stack: a frame is [fn, pc, ...locals], the last frame is the       *)
(* running one, and one action is the code of a method between two calls   *)
(* of a recursive method.                                                  *)
(***************************************************************************)
EXTENDS Integers, Sequences, FiniteSets, TLC

VARIABLES input,      \* Lexer._input
          cursor,     \* Lexer._cursor
          output,     \* Lexer._output
          stack,      \* the call stack of the recursive _lex_* methods
          ret,        \* the value returned by the method that returned last
          status,     \* "init", "lexing", "done", "error", "parsing", "parsed"
          error,      \* the exception raised, NoError if none
          expect,     \* the token whose text is being lexed again, NoToken if none
          tokens,     \* Parser.tokens
          operands,   \* Parser.operands
          operators   \* Parser.operators

vars == <<input, cursor, output, stack, ret, status, error, expect,
          tokens, operands, operators>>

parser_vars == <<tokens, operands, operators>>

-----------------------------------------------------------------------------
(* Bounds of the model. *)

\* longest input drawn from the whole alphabet
MaxLen == 4

\* most tokens of a generated operator expression (src/lang)
MaxTokens == 7

-----------------------------------------------------------------------------
(* Characters and strings. *)

Digits == {"0", "1", "2", "3", "4", "5", "6", "7", "8", "9"}

Lower == {"a", "b", "c", "d", "e", "f", "g", "h", "i", "j", "k", "l", "m",
          "n", "o", "p", "q", "r", "s", "t", "u", "v", "w", "x", "y", "z"}

\* the class [_a-z0-9]
IdentifierChars == Lower \cup Digits \cup {"_"}

\* the class [ \t]
WhitespaceChars == {" ", "\t"}

None == "None"

NoError == [kind |-> "none"]

NoToken == [offset |-> 0, category |-> None, value |-> <<>>]

Front(s) == SubSeq(s, 1, Len(s) - 1)

Last(s) == s[Len(s)]

\* all strings over the alphabet of length at most n
Strings(alphabet, n) == UNION {[1..k -> alphabet] : k \in 0..n}

\* self._input[self._cursor:].startswith(string)
StartsWith(c, string) ==
    /\ c + Len(string) <= Len(input)
    /\ \A i \in 1..Len(string) : input[c + i] = string[i]

\* the length of the longest run of characters of the class at position c:
\* what a greedy '^[class]+' matches on self._input[c:]
RECURSIVE RunLen(_, _)
RunLen(c, class) ==
    IF c < Len(input) /\ input[c + 1] \in class
    THEN 1 + RunLen(c + 1, class)
    ELSE 0

-----------------------------------------------------------------------------
(* src/calc/lexer.py: the non-recursive methods.  Each takes the cursor c  *)
(* and the output o and gives [ok, cursor, output]: the value returned and *)
(* the two fields afterwards.                                              *)

calc_has_more == cursor < Len(input)

calc_backup == [cursor |-> cursor, output |-> output]

\* A restore that rewinds the cursor and keeps the tokens of the attempt.
calc_restore_keeps_output(backup, o) == [cursor |-> backup.cursor, output |-> o]

\* o: the output at the time of the call (replaced by the copy of the backup)
calc_restore(backup, o) == [cursor |-> backup.cursor, output |-> backup.output]

\* A match that stamps the token with the cursor after the match.
calc_match_offset_after(c, o, string, category) ==
    IF StartsWith(c, string)
    THEN [ok |-> TRUE, cursor |-> c + Len(string),
          output |-> Append(o, [offset |-> c + Len(string),
                                category |-> category, value |-> string])]
    ELSE [ok |-> FALSE, cursor |-> c, output |-> o]

calc_match(c, o, string, category) ==
    LET token == [offset |-> c, category |-> category, value |-> string]
    IN  IF StartsWith(c, string)
        THEN [ok |-> TRUE, cursor |-> c + Len(string), output |-> Append(o, token)]
        ELSE [ok |-> FALSE, cursor |-> c, output |-> o]

calc_regex(c, o, class, category) ==
    LET n == RunLen(c, class)
        token == [offset |-> c, category |-> category,
                  value |-> SubSeq(input, c + 1, c + n)]
    IN  IF n > 0
        THEN [ok |-> TRUE, cursor |-> c + n, output |-> Append(o, token)]
        ELSE [ok |-> FALSE, cursor |-> c, output |-> o]

\* Whitespace that stays in the output as a token of category None.
calc_lex_whitespace_keeps_token(c, o) == calc_regex(c, o, WhitespaceChars, None)

calc_lex_whitespace(c, o) ==
    LET r == calc_regex(c, o, WhitespaceChars, None)
    IN  IF r.ok
        THEN [ok |-> TRUE, cursor |-> r.cursor, output |-> Front(r.output)]
        ELSE [ok |-> FALSE, cursor |-> r.cursor, output |-> r.output]

calc_lex_prefix(c, o) == calc_match(c, o, <<"-">>, "PREFIX")

\* while self._lex_prefix(): pass
RECURSIVE calc_lex_prefixes(_, _)
calc_lex_prefixes(c, o) ==
    LET r == calc_lex_prefix(c, o)
    IN  IF r.ok THEN calc_lex_prefixes(r.cursor, r.output) ELSE r

calc_infix_operators == <<"+", "-", "*", "/", "=">>

\* for op in '+-*/=': the first operator that matches, from the i-th on
RECURSIVE calc_lex_infix_from(_, _, _)
calc_lex_infix_from(c, o, i) ==
    IF i > Len(calc_infix_operators)
    THEN [ok |-> FALSE, cursor |-> c, output |-> o]
    ELSE LET r == calc_match(c, o, <<calc_infix_operators[i]>>, "INFIX")
         IN  IF r.ok THEN r ELSE calc_lex_infix_from(c, o, i + 1)

calc_lex_infix(c, o) == calc_lex_infix_from(c, o, 1)

-----------------------------------------------------------------------------
(* The call stack.  The frame of _lex_term also holds entry_output, the     *)
(* output as it was when the method was entered: a history value that no   *)
(* action reads, kept to state what a restore has to bring back.           *)

Top == Last(stack)

At(fn, pc) ==
    /\ status = "lexing"
    /\ stack # <<>>
    /\ Top.fn = fn
    /\ Top.pc = pc

\* the running frame goes on at pc (with its locals) when the callee returns
Call(frame, fn) ==
    /\ stack' = Append(Append(Front(stack), frame), [fn |-> fn, pc |-> "begin"])
    /\ UNCHANGED <<ret, status, error>>

Return(value) ==
    /\ stack' = Front(stack)
    /\ ret' = value
    /\ UNCHANGED <<status, error>>

\* an exception: no method catches it, so every frame is left
Raise(exception) ==
    /\ stack' = <<>>
    /\ status' = "error"
    /\ error' = exception
    /\ UNCHANGED ret

calc_LexerError(offset, message) ==
    [kind |-> "LexerError", offset |-> offset, message |-> message]

-----------------------------------------------------------------------------
(* src/calc/lexer.py: lex, finalize and the four recursive methods. *)

\* lex(input_): Lexer(input_), then lexer.lex() enters _lex_expression
calc_lex ==
    /\ status = "init"
    /\ status' = "lexing"
    /\ cursor' = 0
    /\ output' = <<>>
    /\ stack' = <<[fn |-> "_lex_expression", pc |-> "begin"]>>
    /\ UNCHANGED <<input, ret, error, expect, parser_vars>>

\* A finalize that never looks at the cursor.
calc_finalize_unchecked ==
    /\ status = "lexing"
    /\ stack = <<>>
    /\ status' = "done"
    /\ UNCHANGED <<input, cursor, output, stack, ret, error, expect, parser_vars>>

\* lexer.lex() has returned (its value is dropped); lexer.finalize()
calc_finalize ==
    /\ status = "lexing"
    /\ stack = <<>>
    /\ IF calc_has_more
       THEN /\ status' = "error"
            /\ error' = calc_LexerError(cursor, "invalid syntax")
       ELSE /\ status' = "done"
            /\ UNCHANGED error
    /\ UNCHANGED <<input, cursor, output, stack, ret, expect, parser_vars>>

\* _lex_expression, lines 173-175
calc_lex_expression_begin ==
    /\ At("_lex_expression", "begin")
    /\ LET w == calc_lex_whitespace(cursor, output)
       IN  /\ cursor' = w.cursor
           /\ output' = w.output
    /\ Call([fn |-> "_lex_expression", pc |-> "first"], "_lex_term")
    /\ UNCHANGED <<input, expect, parser_vars>>

\* the head of 'while self._lex_infix()', lines 180-182 and 186, from (c, o)
calc_lex_expression_loop(c, o) ==
    LET i == calc_lex_infix(c, o)
        w == calc_lex_whitespace(i.cursor, i.output)
    IN  IF i.ok
        THEN /\ cursor' = w.cursor
             /\ output' = w.output
             /\ Call([fn |-> "_lex_expression", pc |-> "next"], "_lex_term")
        ELSE /\ cursor' = c
             /\ output' = o
             /\ Return(TRUE)

\* _lex_expression, lines 175-182: the first term has returned
calc_lex_expression_first ==
    /\ At("_lex_expression", "first")
    /\ IF ~ret
       THEN /\ Return(FALSE)
            /\ UNCHANGED <<cursor, output>>
       ELSE LET w == calc_lex_whitespace(cursor, output)
            IN  calc_lex_expression_loop(w.cursor, w.output)
    /\ UNCHANGED <<input, expect, parser_vars>>

\* _lex_expression, lines 182-186: the term after an infix operator has returned
calc_lex_expression_next ==
    /\ At("_lex_expression", "next")
    /\ IF ~ret
       THEN /\ Raise(calc_LexerError(cursor, "expected expression"))
            /\ UNCHANGED <<cursor, output>>
       ELSE LET w == calc_lex_whitespace(cursor, output)
            IN  calc_lex_expression_loop(w.cursor, w.output)
    /\ UNCHANGED <<input, expect, parser_vars>>

\* _lex_term, lines 141-148
calc_lex_term_begin ==
    /\ At("_lex_term", "begin")
    /\ LET p == calc_lex_prefixes(cursor, output)
           w == calc_lex_whitespace(p.cursor, p.output)
       IN  /\ cursor' = w.cursor
           /\ output' = w.output
    /\ Call([fn |-> "_lex_term", pc |-> "end", backup |-> calc_backup,
             entry_output |-> output], "_lex_value")
    /\ UNCHANGED <<input, expect, parser_vars>>

\* _lex_term, lines 148-152: _lex_value has returned
calc_lex_term_end ==
    /\ At("_lex_term", "end")
    /\ IF ~ret
       THEN LET r == calc_restore(Top.backup, output)
            IN  /\ cursor' = r.cursor
                /\ output' = r.output
                /\ Return(FALSE)
       ELSE /\ Return(TRUE)
            /\ UNCHANGED <<cursor, output>>
    /\ UNCHANGED <<input, expect, parser_vars>>

\* _lex_value, lines 100-138, up to the first call of a recursive method
calc_lex_value_begin ==
    /\ At("_lex_value", "begin")
    /\ LET backup == calc_backup
           open == calc_match(cursor, output, <<"(">>, "OPEN")
           integer == calc_regex(cursor, output, Digits, "INTEGER")
           invoke == calc_regex(cursor, output, IdentifierChars, "INVOKE")
           w == calc_lex_whitespace(invoke.cursor, invoke.output)
           open2 == calc_match(w.cursor, w.output, <<"(">>, "OPEN")
           \* line 132 when the invocation was tried, else the state as it is
           r == IF invoke.ok THEN calc_restore(backup, w.output)
                             ELSE [cursor |-> cursor, output |-> output]
           variable == calc_regex(r.cursor, r.output, IdentifierChars, "VARIABLE")
       IN  IF open.ok
           THEN \* rule: '(' <expression> ')'
                /\ cursor' = open.cursor
                /\ output' = open.output
                /\ Call([fn |-> "_lex_value", pc |-> "group",
                         offset |-> Last(open.output).offset], "_lex_expression")
           ELSE IF integer.ok
           THEN \* rule: INTEGER
                /\ cursor' = integer.cursor
                /\ output' = integer.output
                /\ Return(TRUE)
           ELSE IF invoke.ok /\ open2.ok
           THEN \* rule: IDENTIFIER WS? '(' <arguments>? ')'
                /\ cursor' = open2.cursor
                /\ output' = open2.output
                /\ Call([fn |-> "_lex_value", pc |-> "invoke",
                         offset |-> Last(open2.output).offset], "_lex_arguments")
           ELSE \* rule: IDENTIFIER
                /\ cursor' = variable.cursor
                /\ output' = variable.output
                /\ Return(variable.ok)
    /\ UNCHANGED <<input, expect, parser_vars>>

\* _lex_value, lines 106-112: the expression of a grouping has returned
calc_lex_value_group ==
    /\ At("_lex_value", "group")
    /\ LET close == calc_match(cursor, output, <<")">>, "CLOSE")
       IN  IF ~ret
           THEN /\ Raise(calc_LexerError(Top.offset, "expected expression"))
                /\ UNCHANGED <<cursor, output>>
           ELSE IF close.ok
           THEN /\ cursor' = close.cursor
                /\ output' = close.output
                /\ Return(TRUE)
           ELSE /\ Raise(calc_LexerError(Top.offset, "missing closing parenthesis"))
                /\ UNCHANGED <<cursor, output>>
    /\ UNCHANGED <<input, expect, parser_vars>>

\* _lex_value, lines 125-130: _lex_arguments has returned (its value is dropped)
calc_lex_value_invoke ==
    /\ At("_lex_value", "invoke")
    /\ LET close == calc_match(cursor, output, <<")">>, "CLOSE")
       IN  IF ~close.ok
           THEN /\ Raise(calc_LexerError(Top.offset, "missing closing parenthesis"))
                /\ UNCHANGED <<cursor, output>>
           ELSE /\ cursor' = close.cursor
                /\ output' = close.output
                /\ Return(TRUE)
    /\ UNCHANGED <<input, expect, parser_vars>>

\* _lex_arguments, line 88
calc_lex_arguments_begin ==
    /\ At("_lex_arguments", "begin")
    /\ Call([fn |-> "_lex_arguments", pc |-> "first"], "_lex_expression")
    /\ UNCHANGED <<input, cursor, output, expect, parser_vars>>

\* the head of "while self._match(',', Category.COMMA)", lines 91-92 and 95
calc_lex_arguments_loop ==
    LET comma == calc_match(cursor, output, <<",">>, "COMMA")
    IN  IF comma.ok
        THEN /\ cursor' = comma.cursor
             /\ output' = comma.output
             /\ Call([fn |-> "_lex_arguments", pc |-> "next"], "_lex_expression")
        ELSE /\ Return(TRUE)
             /\ UNCHANGED <<cursor, output>>

\* _lex_arguments, lines 88-92: the first expression has returned
calc_lex_arguments_first ==
    /\ At("_lex_arguments", "first")
    /\ IF ~ret
       THEN /\ Return(FALSE)
            /\ UNCHANGED <<cursor, output>>
       ELSE calc_lex_arguments_loop
    /\ UNCHANGED <<input, expect, parser_vars>>

\* An error after a comma that is stamped with the cursor.
calc_lex_arguments_next_at_cursor ==
    /\ At("_lex_arguments", "next")
    /\ IF ~ret
       THEN /\ Raise(calc_LexerError(cursor, "expected expression"))
            /\ UNCHANGED <<cursor, output>>
       ELSE calc_lex_arguments_loop
    /\ UNCHANGED <<input, expect, parser_vars>>

\* _lex_arguments, lines 92-95: the expression after a comma has returned
calc_lex_arguments_next ==
    /\ At("_lex_arguments", "next")
    /\ IF ~ret
       THEN /\ Raise(calc_LexerError(Last(output).offset, "expected expression"))
            /\ UNCHANGED <<cursor, output>>
       ELSE calc_lex_arguments_loop
    /\ UNCHANGED <<input, expect, parser_vars>>

calc_Next ==
    \/ calc_lex
    \/ calc_finalize
    \/ calc_lex_expression_begin
    \/ calc_lex_expression_first
    \/ calc_lex_expression_next
    \/ calc_lex_term_begin
    \/ calc_lex_term_end
    \/ calc_lex_value_begin
    \/ calc_lex_value_group
    \/ calc_lex_value_invoke
    \/ calc_lex_arguments_begin
    \/ calc_lex_arguments_first
    \/ calc_lex_arguments_next

\* the characters the inputs of src/calc are drawn from
calc_Alphabet == {"1", "a", "(", ")", ",", "-", "+", " "}

\* the inputs of the design's testable properties
calc_Examples ==
    { <<"f", "(", "1", ",", "2", ")">>,
      <<"f", " ", "+", "1">>,
      <<"(", "1", "+", "2">>,
      <<"1", " ", "2">>,
      <<"f", "(", "1", ",", ")">>,
      <<"f", "(", " ", ")">>,
      <<"g", "\t", "(", "(", "x", "_", "1", ")", ",", "-", "2", ")">>,
      <<"1", "2", "*", "(", "a", "/", "b", "=", "3", ")", " ">> }

calc_Inputs == Strings(calc_Alphabet, MaxLen) \cup calc_Examples

calc_Init ==
    /\ input \in calc_Inputs
    /\ cursor = 0
    /\ output = <<>>
    /\ stack = <<>>
    /\ ret = FALSE
    /\ status = "init"
    /\ error = NoError
    /\ expect = NoToken
    /\ tokens = <<>>
    /\ operands = <<>>
    /\ operators = <<>>

\* one call of lex(input) of src/calc/lexer.py
Spec == calc_Init /\ [][calc_Next]_vars

-----------------------------------------------------------------------------
(* src/lang/lexer.py: the non-recursive methods of the Lexer. *)

lang_LexerError == [kind |-> "LexerError", where |-> "Lexer"]

\* the dictionary holds the list self._output itself, not a copy of it, so
\* its 'output' entry reads as that list reads at the time of the restore
lang_backup == [cursor |-> cursor]

\* o: the list self._output at the time of the call, which is the list the
\* backup holds
lang_restore(backup, o) == [cursor |-> backup.cursor, output |-> o]

lang_match(c, o, string, category) ==
    LET token == [offset |-> c, category |-> category, value |-> string]
    IN  IF StartsWith(c, string)
        THEN [ok |-> TRUE, cursor |-> c + Len(string), output |-> Append(o, token)]
        ELSE [ok |-> FALSE, cursor |-> c, output |-> o]

lang_regex(c, o, class, category) ==
    LET n == RunLen(c, class)
        token == [offset |-> c, category |-> category,
                  value |-> SubSeq(input, c + 1, c + n)]
    IN  IF n > 0
        THEN [ok |-> TRUE, cursor |-> c + n, output |-> Append(o, token)]
        ELSE [ok |-> FALSE, cursor |-> c, output |-> o]

\* for op in operators: the first that matches, from the i-th on
RECURSIVE lang_match_first(_, _, _, _, _)
lang_match_first(c, o, ops, category, i) ==
    IF i > Len(ops)
    THEN [ok |-> FALSE, cursor |-> c, output |-> o]
    ELSE LET r == lang_match(c, o, ops[i], category)
         IN  IF r.ok THEN r ELSE lang_match_first(c, o, ops, category, i + 1)

lang_lex_prefix(c, o) ==
    lang_match_first(c, o, << <<"+", "+">>, <<"-", "-">>, <<"-">> >>, "PREFIX", 1)

lang_lex_infix(c, o) ==
    lang_match_first(c, o, << <<"+">>, <<"-">>, <<"*">>, <<"/">> >>, "INFIX", 1)

lang_lex_postfix(c, o) ==
    lang_match_first(c, o, << <<"+", "+">>, <<"-", "-">> >>, "POSTFIX", 1)

\* while self._lex_prefix(): pass
RECURSIVE lang_lex_prefixes(_, _)
lang_lex_prefixes(c, o) ==
    LET r == lang_lex_prefix(c, o)
    IN  IF r.ok THEN lang_lex_prefixes(r.cursor, r.output) ELSE r

\* while self._lex_postfix(): pass
RECURSIVE lang_lex_postfixes(_, _)
lang_lex_postfixes(c, o) ==
    LET r == lang_lex_postfix(c, o)
    IN  IF r.ok THEN lang_lex_postfixes(r.cursor, r.output) ELSE r

\* self._output[-1].category = category
lang_set_category(o, category) ==
    [o EXCEPT ![Len(o)] = [@ EXCEPT !.category = category]]

-----------------------------------------------------------------------------
(* src/lang/lexer.py: the recursive methods of the Lexer. *)

\* Lexer(input_), then lexer._lex_expression() (lines 270-271)
lang_Lexer ==
    /\ status = "init"
    /\ status' = "lexing"
    /\ cursor' = 0
    /\ output' = <<>>
    /\ stack' = <<[fn |-> "_lex_expression", pc |-> "begin"]>>
    /\ UNCHANGED <<input, ret, error, expect, parser_vars>>

\* _lex_expression, line 161
lang_lex_expression_begin ==
    /\ At("_lex_expression", "begin")
    /\ Call([fn |-> "_lex_expression", pc |-> "first"], "_lex_term")
    /\ UNCHANGED <<input, cursor, output, expect, parser_vars>>

\* the head of 'while self._lex_infix()', lines 164-165 and 168
lang_lex_expression_loop ==
    LET i == lang_lex_infix(cursor, output)
    IN  IF i.ok
        THEN /\ cursor' = i.cursor
             /\ output' = i.output
             /\ Call([fn |-> "_lex_expression", pc |-> "next"], "_lex_term")
        ELSE /\ Return(TRUE)
             /\ UNCHANGED <<cursor, output>>

\* _lex_expression, lines 161-165: the first term has returned
lang_lex_expression_first ==
    /\ At("_lex_expression", "first")
    /\ IF ~ret
       THEN /\ Return(FALSE)
            /\ UNCHANGED <<cursor, output>>
       ELSE lang_lex_expression_loop
    /\ UNCHANGED <<input, expect, parser_vars>>

\* _lex_expression, lines 165-168: the term after an infix operator has returned
lang_lex_expression_next ==
    /\ At("_lex_expression", "next")
    /\ IF ~ret
       THEN /\ Raise(lang_LexerError)
            /\ UNCHANGED <<cursor, output>>
       ELSE lang_lex_expression_loop
    /\ UNCHANGED <<input, expect, parser_vars>>

\* _lex_term, lines 118-123
lang_lex_term_begin ==
    /\ At("_lex_term", "begin")
    /\ LET p == lang_lex_prefixes(cursor, output)
       IN  /\ cursor' = p.cursor
           /\ output' = p.output
    /\ Call([fn |-> "_lex_term", pc |-> "end", backup |-> lang_backup,
             entry_output |-> output], "_lex_value")
    /\ UNCHANGED <<input, expect, parser_vars>>

\* _lex_term, lines 123-130: _lex_value has returned
lang_lex_term_end ==
    /\ At("_lex_term", "end")
    /\ IF ~ret
       THEN LET r == lang_restore(Top.backup, output)
            IN  /\ cursor' = r.cursor
                /\ output' = r.output
                /\ Return(FALSE)
       ELSE LET p == lang_lex_postfixes(cursor, output)
            IN  /\ cursor' = p.cursor
                /\ output' = p.output
                /\ Return(TRUE)
    /\ UNCHANGED <<input, expect, parser_vars>>

\* _lex_value, lines 85-115, up to the first call of a recursive method
lang_lex_value_begin ==
    /\ At("_lex_value", "begin")
    /\ LET open == lang_match(cursor, output, <<"(">>, "OPEN")
           integer == lang_regex(cursor, output, Digits, "INTEGER")
           identifier == lang_regex(cursor, output, IdentifierChars, None)
           open2 == lang_match(identifier.cursor, identifier.output, <<"(">>, "OPEN")
       IN  IF open.ok
           THEN \* rule: '(' <expression> ')'
                /\ cursor' = open.cursor
                /\ output' = open.output
                /\ Call([fn |-> "_lex_value", pc |-> "group"], "_lex_expression")
           ELSE IF integer.ok
           THEN \* rule: INTEGER
                /\ cursor' = integer.cursor
                /\ output' = integer.output
                /\ Return(TRUE)
           ELSE IF identifier.ok /\ open2.ok
           THEN \* rule: IDENTIFIER '(' <arguments>? ')': the Open token is
                \* popped and the identifier becomes the Invoke token
                /\ cursor' = open2.cursor
                /\ output' = lang_set_category(Front(open2.output), "INVOKE")
                /\ Call([fn |-> "_lex_value", pc |-> "invoke"], "_lex_arguments")
           ELSE IF identifier.ok
           THEN \* rule: IDENTIFIER
                /\ cursor' = identifier.cursor
                /\ output' = lang_set_category(identifier.output, "VARIABLE")
                /\ Return(TRUE)
           ELSE /\ Return(FALSE)
                /\ UNCHANGED <<cursor, output>>
    /\ UNCHANGED <<input, expect, parser_vars>>

\* _lex_value, lines 87-93: the expression of a grouping has returned
lang_lex_value_group ==
    /\ At("_lex_value", "group")
    /\ LET close == lang_match(cursor, output, <<")">>, "CLOSE")
       IN  IF ret /\ close.ok
           THEN /\ cursor' = close.cursor
                /\ output' = close.output
                /\ Return(TRUE)
           ELSE /\ Raise(lang_LexerError)
                /\ UNCHANGED <<cursor, output>>
    /\ UNCHANGED <<input, expect, parser_vars>>

\* _lex_value, lines 105-110: _lex_arguments has returned (its value is dropped)
lang_lex_value_invoke ==
    /\ At("_lex_value", "invoke")
    /\ LET close == lang_match(cursor, output, <<")">>, "CLOSE")
       IN  IF close.ok
           THEN /\ cursor' = close.cursor
                /\ output' = close.output
                /\ Return(TRUE)
           ELSE /\ Raise(lang_LexerError)
                /\ UNCHANGED <<cursor, output>>
    /\ UNCHANGED <<input, expect, parser_vars>>

\* _lex_arguments, line 151
lang_lex_arguments_begin ==
    /\ At("_lex_arguments", "begin")
    /\ Call([fn |-> "_lex_arguments", pc |-> "first"], "_lex_expression")
    /\ UNCHANGED <<input, cursor, output, expect, parser_vars>>

\* the head of "while self._match(',', Category.COMMA)", lines 154-155 and 158
lang_lex_arguments_loop ==
    LET comma == lang_match(cursor, output, <<",">>, "COMMA")
    IN  IF comma.ok
        THEN /\ cursor' = comma.cursor
             /\ output' = comma.output
             /\ Call([fn |-> "_lex_arguments", pc |-> "next"], "_lex_expression")
        ELSE /\ Return(TRUE)
             /\ UNCHANGED <<cursor, output>>

\* _lex_arguments, lines 151-155: the first expression has returned
lang_lex_arguments_first ==
    /\ At("_lex_arguments", "first")
    /\ IF ~ret
       THEN /\ Return(FALSE)
            /\ UNCHANGED <<cursor, output>>
       ELSE lang_lex_arguments_loop
    /\ UNCHANGED <<input, expect, parser_vars>>

\* _lex_arguments, lines 155-158: the expression after a comma has returned
lang_lex_arguments_next ==
    /\ At("_lex_arguments", "next")
    /\ IF ~ret
       THEN /\ Raise(lang_LexerError)
            /\ UNCHANGED <<cursor, output>>
       ELSE lang_lex_arguments_loop
    /\ UNCHANGED <<input, expect, parser_vars>>

-----------------------------------------------------------------------------
(* src/lang/lexer.py: the syntax tree and the Parser.  The operators that  *)
(* take P work on [operands, operators, error], the two stacks and the     *)
(* exception raised so far.                                                *)

lang_Error(kind, where) == [kind |-> kind, where |-> where]

ExprInteger(offset, value) ==
    [type |-> "ExprInteger", offset |-> offset, value |-> value]

ExprVariable(offset, name) ==
    [type |-> "ExprVariable", offset |-> offset, name |-> name]

ExprBinary(offset, operator, lhs, rhs) ==
    [type |-> "ExprBinary", offset |-> offset, operator |-> operator,
     lhs |-> lhs, rhs |-> rhs]

ExprInvoke(offset, name, arguments) ==
    [type |-> "ExprInvoke", offset |-> offset, name |-> name,
     arguments |-> arguments]

\* A table in which every operator has the same rank.
PRECEDENCE_one_rank ==
    (<<"+">> :> 1) @@ (<<"-">> :> 1) @@ (<<"*">> :> 1) @@ (<<"/">> :> 1) @@ (<<"(">> :> 0)

PRECEDENCE ==
    (<<"+">> :> 1) @@ (<<"-">> :> 1) @@ (<<"*">> :> 2) @@ (<<"/">> :> 2) @@ (<<"(">> :> 0)

DigitValue ==
    ("0" :> 0) @@ ("1" :> 1) @@ ("2" :> 2) @@ ("3" :> 3) @@ ("4" :> 4) @@
    ("5" :> 5) @@ ("6" :> 6) @@ ("7" :> 7) @@ ("8" :> 8) @@ ("9" :> 9)

\* int(token.value) of a run of digits
RECURSIVE int(_)
int(digits) ==
    IF digits = <<>> THEN 0
    ELSE 10 * int(Front(digits)) + DigitValue[Last(digits)]

\* Parser.apply, with the operator token already popped
parser_apply(P, token) ==
    LET n == Len(P.operands)
    IN  IF token.category # "INFIX"
        THEN [P EXCEPT !.error = lang_Error("AssertionError", "Parser.apply")]
        ELSE IF n = 0
        THEN [P EXCEPT !.error = lang_Error("IndexError", "Parser.apply")]
        ELSE IF n = 1
        THEN [P EXCEPT !.operands = <<>>,
                       !.error = lang_Error("IndexError", "Parser.apply")]
        ELSE [P EXCEPT !.operands =
                 Append(SubSeq(P.operands, 1, n - 2),
                        ExprBinary(token.offset, token.value,
                                   P.operands[n - 1], P.operands[n]))]

\* parse_arguments: 'pass', so the call gives None
parser_parse_arguments == None

\* lines 249-252: apply down to the Open marker, then drop it
RECURSIVE parser_close(_)
parser_close(P) ==
    IF P.operators = <<>>
    THEN [P EXCEPT !.error = lang_Error("IndexError", "Parser.top")]
    ELSE IF Last(P.operators).category # "OPEN"
    THEN LET Q == parser_apply([P EXCEPT !.operators = Front(@)], Last(P.operators))
         IN  IF Q.error.kind # "none" THEN Q ELSE parser_close(Q)
    ELSE [P EXCEPT !.operators = Front(@)]

\* lines 256-259: apply what binds at least as tightly, then push the token
RECURSIVE parser_infix(_, _)
parser_infix(P, token) ==
    IF Len(P.operators) > 0
    THEN IF \/ Last(P.operators).value \notin DOMAIN PRECEDENCE
            \/ token.value \notin DOMAIN PRECEDENCE
         THEN [P EXCEPT !.error = lang_Error("KeyError", "Parser.parse_expression")]
         ELSE IF PRECEDENCE[Last(P.operators).value] >= PRECEDENCE[token.value]
         THEN LET Q == parser_apply([P EXCEPT !.operators = Front(@)],
                                    Last(P.operators))
              IN  IF Q.error.kind # "none" THEN Q ELSE parser_infix(Q, token)
         ELSE [P EXCEPT !.operators = Append(@, token)]
    ELSE [P EXCEPT !.operators = Append(@, token)]

\* lines 264-267: apply what is left, then one operand has to remain
RECURSIVE parser_end(_)
parser_end(P) ==
    IF Len(P.operators) > 0
    THEN LET Q == parser_apply([P EXCEPT !.operators = Front(@)], Last(P.operators))
         IN  IF Q.error.kind # "none" THEN Q ELSE parser_end(Q)
    ELSE IF Len(P.operands) # 1
    THEN [P EXCEPT !.error = lang_Error("AssertionError", "Parser.parse_expression")]
    ELSE P

Parsing == [operands |-> operands, operators |-> operators, error |-> NoError]

\* the token of this turn of 'while len(self.tokens)' is taken off the list
Token(category) ==
    /\ status = "parsing"
    /\ tokens # <<>>
    /\ Head(tokens).category = category
    /\ tokens' = Tail(tokens)

\* the stacks after the step, and the exception if one was raised
Parsed(P, then) ==
    /\ operands' = P.operands
    /\ operators' = P.operators
    /\ IF P.error.kind # "none"
       THEN /\ status' = "error"
            /\ error' = P.error
       ELSE /\ status' = then
            /\ UNCHANGED error
    /\ UNCHANGED <<input, cursor, output, stack, ret, expect>>

\* lines 271 and 274: assert lexer._lex_expression(), then Parser(lexer._output)
Parser_init ==
    /\ status = "lexing"
    /\ stack = <<>>
    /\ IF ret
       THEN /\ status' = "parsing"
            /\ tokens' = output
            /\ operands' = <<>>
            /\ operators' = <<>>
            /\ UNCHANGED error
       ELSE /\ status' = "error"
            /\ error' = lang_Error("AssertionError", "assert lexer._lex_expression()")
            /\ UNCHANGED parser_vars
    /\ UNCHANGED <<input, cursor, output, stack, ret, expect>>

\* lines 228-230
parse_expression_integer ==
    /\ Token("INTEGER")
    /\ LET token == Head(tokens)
       IN  Parsed([Parsing EXCEPT !.operands =
                      Append(@, ExprInteger(token.offset, int(token.value)))],
                  "parsing")

\* lines 232-234
parse_expression_variable ==
    /\ Token("VARIABLE")
    /\ LET token == Head(tokens)
       IN  Parsed([Parsing EXCEPT !.operands =
                      Append(@, ExprVariable(token.offset, token.value))],
                  "parsing")

\* lines 236-242
parse_expression_invoke ==
    /\ Token("INVOKE")
    /\ LET token == Head(tokens)
       IN  Parsed([Parsing EXCEPT !.operands =
                      Append(@, ExprInvoke(token.offset, token.value,
                                           parser_parse_arguments))],
                  "parsing")

\* lines 244-246
parse_expression_open ==
    /\ Token("OPEN")
    /\ Parsed([Parsing EXCEPT !.operators = Append(@, Head(tokens))], "parsing")

\* lines 248-253
parse_expression_close ==
    /\ Token("CLOSE")
    /\ Parsed(parser_close(Parsing), "parsing")

\* lines 255-260
parse_expression_infix ==
    /\ Token("INFIX")
    /\ Parsed(parser_infix(Parsing, Head(tokens)), "parsing")

\* line 262: a token of any other category
parse_expression_other ==
    /\ \E category \in {"COMMA", "PREFIX", "POSTFIX", None} : Token(category)
    /\ Parsed([Parsing EXCEPT !.error =
                  lang_Error("NotImplementedError", "Parser.parse_expression")],
              "parsing")

\* lines 264-268: no token is left
parse_expression_end ==
    /\ status = "parsing"
    /\ tokens = <<>>
    /\ UNCHANGED tokens
    /\ Parsed(parser_end(Parsing), "parsed")

lang_Next ==
    \/ lang_Lexer
    \/ lang_lex_expression_begin
    \/ lang_lex_expression_first
    \/ lang_lex_expression_next
    \/ lang_lex_term_begin
    \/ lang_lex_term_end
    \/ lang_lex_value_begin
    \/ lang_lex_value_group
    \/ lang_lex_value_invoke
    \/ lang_lex_arguments_begin
    \/ lang_lex_arguments_first
    \/ lang_lex_arguments_next
    \/ Parser_init
    \/ parse_expression_integer
    \/ parse_expression_variable
    \/ parse_expression_invoke
    \/ parse_expression_open
    \/ parse_expression_close
    \/ parse_expression_infix
    \/ parse_expression_other
    \/ parse_expression_end

\* the characters the short inputs of src/lang are drawn from
lang_Alphabet == {"1", "a", "(", ")", ",", "-", "+", "*"}

\* the operands and the operators of the generated operator expressions
lang_Operands == {"1", "a"}
lang_Operators == {"+", "-", "*", "/"}

\* the strings of exactly n characters that are an expression of one-character
\* operands, infix operators and parentheses
RECURSIVE lang_Expressions(_)
lang_Values(n) ==
    IF n = 1 THEN {<<c>> : c \in lang_Operands}
    ELSE IF n >= 3 THEN {<<"(">> \o e \o <<")">> : e \in lang_Expressions(n - 2)}
    ELSE {}
lang_Expressions(n) ==
    lang_Values(n) \cup
    UNION { {e \o <<op>> \o v : e \in lang_Expressions(k), op \in lang_Operators,
                                v \in lang_Values(n - k - 1)} : k \in 1..(n - 2) }

\* the input of line 270 and the inputs of the design's testable properties
lang_Examples ==
    { <<"(", "2", "0", "+", "1", ")", "*", "2">>,
      <<"1", "-", "2", "-", "3">>,
      <<"1", "+", "2", "*", "3">>,
      <<"(", "1", "+", "2", ")", "*", "3">>,
      <<"f", "(", "1", ",", "2", ")">>,
      <<"f", "(", ")">>,
      <<"x", "_", "1", "+", "+", "/", "-", "-", "7">> }

lang_Inputs ==
    Strings(lang_Alphabet, MaxLen)
        \cup UNION {lang_Expressions(n) : n \in 1..MaxTokens}
        \cup lang_Examples

lang_Init ==
    /\ input \in lang_Inputs
    /\ cursor = 0
    /\ output = <<>>
    /\ stack = <<>>
    /\ ret = FALSE
    /\ status = "init"
    /\ error = NoError
    /\ expect = NoToken
    /\ tokens = <<>>
    /\ operands = <<>>
    /\ operators = <<>>

\* the script of src/lang/lexer.py, lines 270-275, on one input
SpecLang == lang_Init /\ [][lang_Next]_vars

-----------------------------------------------------------------------------
(* The round trip of a token: lex(s) has returned its tokens, and the text *)
(* of one of them, s[t.offset : t.offset + len(t.value)], is given to lex  *)
(* as a new input.                                                         *)

relex ==
    /\ status = "done"
    /\ expect = NoToken
    /\ \E i \in DOMAIN output :
          LET t == output[i]
          IN  /\ expect' = t
              /\ input' = SubSeq(input, t.offset + 1, t.offset + Len(t.value))
    /\ status' = "init"
    /\ cursor' = 0
    /\ output' = <<>>
    /\ UNCHANGED <<stack, ret, error, parser_vars>>

\* lex(s), then lex of the text of one token of the result
SpecRoundTrip == calc_Init /\ [][calc_Next \/ relex]_vars

-----------------------------------------------------------------------------
(* Properties of src/calc/lexer.py. *)

\* the stack of the positions of the '(' of input[0:c] that no ')' closes
RECURSIVE OpenPositions(_, _, _)
OpenPositions(p, c, opens) ==
    IF p >= c THEN opens
    ELSE IF input[p + 1] = "(" THEN OpenPositions(p + 1, c, Append(opens, p))
    ELSE IF input[p + 1] = ")" /\ opens # <<>> THEN OpenPositions(p + 1, c, Front(opens))
    ELSE OpenPositions(p + 1, c, opens)

\* the position of the last character ch of input[0:c], -1 if there is none
RECURSIVE LastPosition(_, _)
LastPosition(ch, c) ==
    IF c = 0 THEN -1
    ELSE IF input[c] = ch THEN c - 1
    ELSE LastPosition(ch, c - 1)

\* position p of the input lies in the text of a token of o
Covered(p, o) ==
    \E i \in DOMAIN o : o[i].offset <= p /\ p < o[i].offset + Len(o[i].value)

\* the texts of the tokens of o, one after the other
RECURSIVE Texts(_)
Texts(o) == IF o = <<>> THEN <<>> ELSE Texts(Front(o)) \o Last(o).value

\* the string s without its spaces and tabs
RECURSIVE WithoutWhitespace(_)
WithoutWhitespace(s) ==
    IF s = <<>> THEN <<>>
    ELSE IF Last(s) \in WhitespaceChars THEN WithoutWhitespace(Front(s))
    ELSE Append(WithoutWhitespace(Front(s)), Last(s))

\* an identifier starts at the cursor: [_a-z0-9]+ matches and [0-9]+ does not
IdentifierAtCursor ==
    /\ cursor < Len(input)
    /\ input[cursor + 1] \in IdentifierChars \ Digits

\* the position after the identifier at c and the whitespace that follows it
AfterIdentifier(c) ==
    LET n == RunLen(c, IdentifierChars)
    IN  c + n + RunLen(c + n, WhitespaceChars)

\* in a returned token list, an Invoke token is an identifier followed by
\* optional whitespace and '(' and is followed by the Open token of that '(',
\* a Variable token is an identifier followed by something else and is not
\* followed by an Open token, and no two tokens start at the same offset
C1_Tokens ==
    /\ \A i \in DOMAIN output :
          LET t == output[i]
              p == AfterIdentifier(t.offset)
              open == StartsWith(p, <<"(">>)
          IN  /\ t.category = "INVOKE" =>
                    /\ open
                    /\ t.value = SubSeq(input, t.offset + 1, t.offset + Len(t.value))
                    /\ i < Len(output)
                    /\ output[i + 1] = [offset |-> p, category |-> "OPEN",
                                        value |-> <<"(">>]
              /\ t.category = "VARIABLE" =>
                    /\ ~open
                    /\ t.value = SubSeq(input, t.offset + 1, t.offset + Len(t.value))
                    /\ i < Len(output) => output[i + 1].category # "OPEN"
    /\ \A i, j \in DOMAIN output : i < j => output[i].offset < output[j].offset

\* the step of _lex_value at an identifier
C1_Step ==
    (At("_lex_value", "begin") /\ IdentifierAtCursor) =>
        LET n == RunLen(cursor, IdentifierChars)
            name == SubSeq(input, cursor + 1, cursor + n)
            p == AfterIdentifier(cursor)
        IN  IF StartsWith(p, <<"(">>)
            THEN /\ output' = output \o
                       << [offset |-> cursor, category |-> "INVOKE", value |-> name],
                          [offset |-> p, category |-> "OPEN", value |-> <<"(">>] >>
                 /\ cursor' = p + 1
            ELSE /\ output' = Append(output, [offset |-> cursor,
                                     category |-> "VARIABLE", value |-> name])
                 /\ cursor' = cursor + n

\* C1: an identifier followed by optional whitespace and '(' is emitted as one
\* Invoke token (and the Open token of the '('); an identifier followed by
\* anything else adds exactly one Variable token to the output as it was before
\* the identifier, with no Invoke or Open token of the abandoned attempt left and
\* no token twice; and the returned token list is made that way
C1_Disambiguation ==
    [][C1_Step /\ (status' = "done" => C1_Tokens')]_vars

\* a Variable token after other tokens, where the abandoned attempt has skipped
\* whitespace
C1_Witness ==
    /\ status = "done"
    /\ \E i \in DOMAIN output :
          /\ i > 1
          /\ output[i].category = "VARIABLE"
          /\ StartsWith(output[i].offset + Len(output[i].value), <<" ">>)

\* C4: lex returns a token list only with the cursor at the end of the input;
\* when an expression was lexed and characters are left, it fails with 'invalid
\* syntax' at the first character that was not consumed, which is no space or
\* tab (trailing whitespace alone never fails)
C4_TrailingInput ==
    /\ status = "done" => cursor = Len(input)
    /\ (status = "error" /\ error.message = "invalid syntax") =>
          /\ error.offset = cursor
          /\ cursor < Len(input)
          /\ input[cursor + 1] \notin WhitespaceChars
          /\ ret => \A p \in 0..(cursor - 1) :
                       Covered(p, output) \/ input[p + 1] \in WhitespaceChars

\* lex("1 2") has failed at offset 2
C4_Witness ==
    /\ input = <<"1", " ", "2">>
    /\ status = "error"
    /\ ret
    /\ error = calc_LexerError(2, "invalid syntax")

\* a '(' has been lexed, its contents have been lexed, and no ')' follows
MissingClose ==
    \/ At("_lex_value", "group") /\ ret /\ ~StartsWith(cursor, <<")">>)
    \/ At("_lex_value", "invoke") /\ ~StartsWith(cursor, <<")">>)

\* C5: when a '(' of a grouping or of an invocation is lexed, its contents are
\* lexed and the next character is not ')', lexing fails with 'missing closing
\* parenthesis' at the position of that '(', the innermost one still open
C5_MissingClose ==
    [][MissingClose =>
          /\ status' = "error"
          /\ OpenPositions(0, cursor, <<>>) # <<>>
          /\ error' = calc_LexerError(Last(OpenPositions(0, cursor, <<>>)),
                                      "missing closing parenthesis")
          /\ input[error'.offset + 1] = "("]_vars

\* the error at the inner of two open parentheses, after whitespace
C5_Witness ==
    /\ status = "error"
    /\ error.message = "missing closing parenthesis"
    /\ Len(OpenPositions(0, cursor, <<>>)) >= 2
    /\ error.offset = Last(OpenPositions(0, cursor, <<>>))
    /\ \E p \in 1..cursor : input[p] \in WhitespaceChars

\* the expression after a comma of an argument list is missing
DanglingComma == At("_lex_arguments", "next") /\ ~ret

\* the arguments of an invocation are missing and ')' follows
EmptyArguments == At("_lex_value", "invoke") /\ ~ret /\ StartsWith(cursor, <<")">>)

C6_EmptyArguments ==
    EmptyArguments =>
        /\ Last(output).category = "OPEN"
        /\ output' = Append(output, [offset |-> cursor, category |-> "CLOSE",
                                     value |-> <<")">>])
        /\ status' = "lexing"

\* C6, as stated: f() lexes with no token between Open and Close, and a comma
\* that no expression follows fails with 'expected expression' at the position
\* immediately after the comma
C6_Original ==
    [][/\ C6_EmptyArguments
       /\ DanglingComma =>
             /\ status' = "error"
             /\ error' = calc_LexerError(LastPosition(",", cursor) + 1,
                                         "expected expression")]_vars

\* C6, amended: the error is at the position of the comma itself
C6_Amended ==
    [][/\ C6_EmptyArguments
       /\ DanglingComma =>
             /\ status' = "error"
             /\ error' = calc_LexerError(LastPosition(",", cursor),
                                         "expected expression")]_vars

\* lex("f(1,)") has failed at the comma
C6_Witness ==
    /\ input = <<"f", "(", "1", ",", ")">>
    /\ status = "error"
    /\ error = calc_LexerError(3, "expected expression")

\* the token that lex gives for the text of the token expect
RoundTrip ==
    /\ status = "done"
    /\ output = << [offset |-> 0, category |-> expect.category,
                    value |-> expect.value] >>

\* C7, as stated: lexing the text of any token of a returned token list gives
\* that one token again, whatever its category
C7_Original ==
    (expect # NoToken /\ status \in {"done", "error"}) => RoundTrip

\* C7, amended: lexing the text of an Integer or Variable token of a returned
\* token list gives that one token again
C7_Amended ==
    (/\ expect # NoToken
     /\ expect.category \in {"INTEGER", "VARIABLE"}
     /\ status \in {"done", "error"}) => RoundTrip

\* the text of a Variable token of several characters has been lexed again
C7_Witness ==
    /\ expect # NoToken
    /\ expect.category = "VARIABLE"
    /\ Len(expect.value) >= 2
    /\ expect.offset > 0
    /\ status = "done"

\* C10: the tokens of a returned list have strictly increasing offsets, each
\* text is the input at its offset, the texts do not overlap, no token has the
\* category None, every character outside the tokens is a space or a tab, and
\* the texts in order are the input without its spaces and tabs
C10_TokenSpans ==
    status = "done" =>
        /\ \A i \in DOMAIN output :
              LET t == output[i]
              IN  /\ t.category # None
                  /\ Len(t.value) > 0
                  /\ t.offset + Len(t.value) <= Len(input)
                  /\ t.value = SubSeq(input, t.offset + 1, t.offset + Len(t.value))
                  /\ i < Len(output) =>
                        /\ t.offset < output[i + 1].offset
                        /\ t.offset + Len(t.value) <= output[i + 1].offset
        /\ \A p \in 0..(Len(input) - 1) :
              Covered(p, output) \/ input[p + 1] \in WhitespaceChars
        /\ Texts(output) = WithoutWhitespace(input)

\* a returned list of several tokens with whitespace between two of them
C10_Witness ==
    /\ status = "done"
    /\ \E i \in DOMAIN output :
          /\ i < Len(output)
          /\ output[i].offset + Len(output[i].value) < output[i + 1].offset

-----------------------------------------------------------------------------
(* The reference grammar of token sequences, by recursive descent:         *)
(*   sum       ::= product (('+' | '-') product)*      grouped to the left *)
(*   product   ::= atom (('*' | '/') atom)*            grouped to the left *)
(*   atom      ::= INTEGER | VARIABLE | OPEN sum CLOSE                     *)
(*               | INVOKE arguments? CLOSE                                 *)
(*   arguments ::= sum (COMMA sum)*                                        *)
(* Each operator gives [ok, node, rest]: whether a phrase starts the       *)
(* tokens, its tree (for arguments, the sequence of trees) and the tokens  *)
(* after it.                                                               *)

RefFail == [ok |-> FALSE, node |-> <<>>, rest |-> <<>>]

Is(ts, category) == ts # <<>> /\ Head(ts).category = category

IsInfix(ts, ops) == Is(ts, "INFIX") /\ Head(ts).value \in ops

RECURSIVE RefSum(_), RefSumRest(_, _), RefProduct(_), RefProductRest(_, _),
          RefAtom(_), RefArguments(_, _)

RefSum(ts) ==
    LET p == RefProduct(ts)
    IN  IF p.ok THEN RefSumRest(p.node, p.rest) ELSE RefFail

RefSumRest(lhs, ts) ==
    IF IsInfix(ts, {<<"+">>, <<"-">>})
    THEN LET p == RefProduct(Tail(ts))
         IN  IF p.ok
             THEN RefSumRest(ExprBinary(Head(ts).offset, Head(ts).value, lhs, p.node),
                             p.rest)
             ELSE RefFail
    ELSE [ok |-> TRUE, node |-> lhs, rest |-> ts]

RefProduct(ts) ==
    LET a == RefAtom(ts)
    IN  IF a.ok THEN RefProductRest(a.node, a.rest) ELSE RefFail

RefProductRest(lhs, ts) ==
    IF IsInfix(ts, {<<"*">>, <<"/">>})
    THEN LET a == RefAtom(Tail(ts))
         IN  IF a.ok
             THEN RefProductRest(ExprBinary(Head(ts).offset, Head(ts).value, lhs, a.node),
                                 a.rest)
             ELSE RefFail
    ELSE [ok |-> TRUE, node |-> lhs, rest |-> ts]

RefAtom(ts) ==
    IF Is(ts, "INTEGER")
    THEN [ok |-> TRUE, node |-> ExprInteger(Head(ts).offset, int(Head(ts).value)),
          rest |-> Tail(ts)]
    ELSE IF Is(ts, "VARIABLE")
    THEN [ok |-> TRUE, node |-> ExprVariable(Head(ts).offset, Head(ts).value),
          rest |-> Tail(ts)]
    ELSE IF Is(ts, "OPEN")
    THEN LET e == RefSum(Tail(ts))
         IN  IF e.ok /\ Is(e.rest, "CLOSE")
             THEN [ok |-> TRUE, node |-> e.node, rest |-> Tail(e.rest)]
             ELSE RefFail
    ELSE IF Is(ts, "INVOKE")
    THEN LET a == IF Is(Tail(ts), "CLOSE")
                  THEN [ok |-> TRUE, node |-> <<>>, rest |-> Tail(ts)]
                  ELSE RefArguments(Tail(ts), <<>>)
         IN  IF a.ok /\ Is(a.rest, "CLOSE")
             THEN [ok |-> TRUE,
                   node |-> ExprInvoke(Head(ts).offset, Head(ts).value, a.node),
                   rest |-> Tail(a.rest)]
             ELSE RefFail
    ELSE RefFail

RefArguments(ts, nodes) ==
    LET e == RefSum(ts)
    IN  IF ~e.ok THEN RefFail
        ELSE IF Is(e.rest, "COMMA")
        THEN RefArguments(Tail(e.rest), Append(nodes, e.node))
        ELSE [ok |-> TRUE, node |-> Append(nodes, e.node), rest |-> e.rest]

\* ts is made of Integer/Variable operands, Infix operators and balanced
\* Open/Close parentheses in expression order
OperatorExpression(ts) ==
    /\ \A i \in DOMAIN ts :
          ts[i].category \in {"INTEGER", "VARIABLE", "INFIX", "OPEN", "CLOSE"}
    /\ RefSum(ts).ok
    /\ RefSum(ts).rest = <<>>

-----------------------------------------------------------------------------
(* Properties of src/lang/lexer.py. *)

ParserPlaces == {"Parser.apply", "Parser.top", "Parser.parse_expression"}

\* an exception has left parse_expression
ParserFailed == status = "error" /\ error.where \in ParserPlaces

Leaf(offset, value) == ExprInteger(offset, value)

C2_Examples ==
    /\ input = <<"1", "-", "2", "-", "3">> =>
          operands = << ExprBinary(3, <<"-">>,
                           ExprBinary(1, <<"-">>, Leaf(0, 1), Leaf(2, 2)),
                           Leaf(4, 3)) >>
    /\ input = <<"1", "+", "2", "*", "3">> =>
          operands = << ExprBinary(1, <<"+">>, Leaf(0, 1),
                           ExprBinary(3, <<"*">>, Leaf(2, 2), Leaf(4, 3))) >>
    /\ input = <<"(", "1", "+", "2", ")", "*", "3">> =>
          operands = << ExprBinary(5, <<"*">>,
                           ExprBinary(2, <<"+">>, Leaf(1, 1), Leaf(3, 2)),
                           Leaf(6, 3)) >>

\* C2: for every token sequence of Integer/Variable operands, Infix operators
\* + - * / and balanced parentheses in expression order, parse_expression
\* returns the tree of the reference grammar (* and / bind tighter than + and -,
\* equal ranks group to the left, a parenthesised expression is one operand),
\* each ExprBinary with the offset of its operator token; 1-2-3 gives (1-2)-3,
\* 1+2*3 gives 1+(2*3) and (1+2)*3 gives (1+2)*3
C2_Precedence ==
    ((status = "parsed" \/ ParserFailed) /\ OperatorExpression(output)) =>
        /\ status = "parsed"
        /\ operands = <<RefSum(output).node>>
        /\ C2_Examples

\* (1+2)*3 has been parsed
C2_Witness ==
    /\ status = "parsed"
    /\ input = <<"(", "1", "+", "2", ")", "*", "3">>
    /\ operands[1].operator = <<"*">>
    /\ operands[1].lhs.operator = <<"+">>

\* C3: the tokens of every input the lexer accepts are parsed to the end: no
\* apply with fewer than two operands, no read or pop of an empty operator
\* stack, no token of a category the parser cannot handle, and one node on the
\* operand stack at the end
C3_Parseable ==
    /\ ~ParserFailed
    /\ status = "parsed" => Len(operands) = 1

\* C8: at an Invoke token, parse_expression parses the arguments that follow,
\* pushes one ExprInvoke whose arguments are their trees in call order (none
\* for f()), and consumes the tokens of the call up to its Close, which do not
\* reach the operand and operator stacks
C8_Invoke ==
    [][(/\ status = "parsing"
        /\ Is(tokens, "INVOKE")
        /\ RefAtom(tokens).ok) =>
            /\ status' = "parsing"
            /\ Len(operands') = Len(operands) + 1
            /\ Last(operands').arguments # None
            /\ operands' = Append(operands, RefAtom(tokens).node)
            /\ tokens' = RefAtom(tokens).rest
            /\ operators' = operators]_vars

\* C9: when _lex_term has matched prefix operators and no value follows, it
\* returns False with the cursor and the output as they were on entry
C9_TermRollback ==
    [][(/\ At("_lex_term", "end")
        /\ ~ret
        /\ Len(output) > Len(Top.entry_output)) =>
            /\ ret' = FALSE
            /\ cursor' = Top.backup.cursor
            /\ output' = Top.entry_output]_vars

====
